---------------------------- MODULE Spec2Model ----------------------------
(***************************************************************************)
(* Model of rule/update_stats.js: the rule-list counter                    *)
(* (parseCountsFromList), the list-header rewriter (updateListHeader), the *)
(* README rewriter (updateReadme) and the per-directory driver             *)
(* (processRuleDir).                                                       *)
(*                                                                         *)
(* A text is a sequence of characters, a character a one-character string  *)
(* (a non-ASCII character is written "U+XXXX").  The JavaScript string and *)
(* array primitives the script calls are operators over such sequences,    *)
(* with JavaScript's 0-based indices.                                      *)
(***************************************************************************)
EXTENDS Integers, Sequences, FiniteSets, TLC

VARIABLES
  listFile,    \* text of the directory's .list file
  readmeFile,  \* text of the directory's README.md, or NoFile
  args,        \* { updatedAt, domainCount, domainSuffixCount, total, tempName }
  runs,        \* the file texts each earlier run read, oldest first
  pc,          \* position inside parseCountsFromList
  lines,       \* parseCountsFromList: const lines
  k,           \* parseCountsFromList: number of lines the for loop has taken
  typeCounts,  \* parseCountsFromList: const typeCounts
  total        \* parseCountsFromList: let total

vars == <<listFile, readmeFile, args, runs, pc, lines, k, typeCounts, total>>

----------------------------------------------------------------------------
(* Bounds of the model.                                                    *)

\* most lines of a rule list given to the counter
MaxCountLines == 3
\* most lines of a rule list given to the header rewriter
MaxListLines == 3
\* most lines of a rule list given to processRuleDir
MaxSyncLines == 3
\* most lines of a generated README
MaxReadmeLines == 2
\* most runs of a rewriter over the same file
MaxRuns == 2

----------------------------------------------------------------------------
(* Characters and JavaScript string primitives.                            *)

CR == "\r"
LF == "\n"

\* the characters String.prototype.trim strips and \s matches, among those
\* the generated texts use
WhiteSpace == {" ", "\t", CR, LF}

\* the characters \d matches
Digit == {"0", "1", "2", "3", "4", "5", "6", "7", "8", "9"}

Min(S) == CHOOSE x \in S : \A y \in S : x <= y

RECURSIVE trimStart(_)
trimStart(s) ==
  IF s # <<>> /\ Head(s) \in WhiteSpace THEN trimStart(Tail(s)) ELSE s

RECURSIVE trimEnd(_)
trimEnd(s) ==
  IF s # <<>> /\ s[Len(s)] \in WhiteSpace
  THEN trimEnd(SubSeq(s, 1, Len(s) - 1))
  ELSE s

\* String.prototype.trim
trim(s) == trimEnd(trimStart(s))

\* String.prototype.startsWith
startsWith(s, p) == Len(s) >= Len(p) /\ SubSeq(s, 1, Len(p)) = p

\* String.prototype.slice(a, b), 0 <= a <= b <= length
slice(s, a, b) == SubSeq(s, a + 1, b)

\* String.prototype.indexOf: 0-based index of the first occurrence, or -1
indexOf(s, p) ==
  LET hits == {j \in 0..(Len(s) - Len(p)) : slice(s, j, j + Len(p)) = p}
  IN  IF hits = {} THEN -1 ELSE Min(hits)

\* String.prototype.includes
includes(s, p) == indexOf(s, p) # -1

\* String.prototype.replace with a string pattern: the first occurrence only.
\* The replacements drawn below hold no "$", so no replacement pattern applies.
replace(s, p, r) ==
  LET j == indexOf(s, p)
  IN  IF j = -1 THEN s ELSE slice(s, 0, j) \o r \o slice(s, j + Len(p), Len(s))

\* String.prototype.replaceAll with a string pattern: every occurrence,
\* scanning on after each match
RECURSIVE replaceAll(_, _, _)
replaceAll(s, p, r) ==
  LET j == indexOf(s, p)
  IN  IF j = -1
      THEN s
      ELSE slice(s, 0, j) \o r \o replaceAll(slice(s, j + Len(p), Len(s)), p, r)

\* content.split(/\r?\n/): cut at every LF, and at the CR before it if any
RECURSIVE split(_)
split(s) ==
  LET j == indexOf(s, <<LF>>)
  IN  IF j = -1
      THEN <<s>>
      ELSE LET e == IF j > 0 /\ s[j] = CR THEN j - 1 ELSE j
           IN  <<slice(s, 0, e)>> \o split(slice(s, j + 1, Len(s)))

\* Array.prototype.join('\n')
RECURSIVE join(_)
join(a) ==
  IF a = <<>> THEN <<>>
  ELSE IF Len(a) = 1 THEN a[1]
  ELSE a[1] \o <<LF>> \o join(Tail(a))

DigitChar(d) ==
  CASE d = 0 -> "0" [] d = 1 -> "1" [] d = 2 -> "2" [] d = 3 -> "3"
    [] d = 4 -> "4" [] d = 5 -> "5" [] d = 6 -> "6" [] d = 7 -> "7"
    [] d = 8 -> "8" [] d = 9 -> "9"

\* String(n) and `${n}` of a non-negative integer: its decimal digits
RECURSIVE String(_)
String(n) ==
  IF n < 10 THEN <<DigitChar(n)>> ELSE String(n \div 10) \o <<DigitChar(n % 10)>>

\* String.prototype.padEnd(n, ' ')
RECURSIVE padEnd(_, _)
padEnd(s, n) == IF Len(s) >= n THEN s ELSE padEnd(s \o <<" ">>, n)

\* Array.prototype.splice(start, 0, item): start is clamped to the length
splice(a, start, item) ==
  LET at == IF start > Len(a) THEN Len(a) ELSE start
  IN  SubSeq(a, 1, at) \o <<item>> \o SubSeq(a, at + 1, Len(a))

----------------------------------------------------------------------------
(* formatDate and the values the rewriters are called with.                *)

\* formatDate's pad: String(n).padStart(2, '0')
pad(n) == IF Len(String(n)) >= 2 THEN String(n) ELSE <<"0">> \o String(n)

\* formatDate; date holds what the Date getters return (getMonth is 0-based)
formatDate(date) ==
  String(date.year) \o <<"-">> \o pad(date.month + 1) \o <<"-">> \o pad(date.day)
    \o <<" ">> \o pad(date.hours) \o <<":">> \o pad(date.minutes)
    \o <<":">> \o pad(date.seconds)

\* the wall-clock time of the modelled invocation
Now == [year |-> 2025, month |-> 0, day |-> 5, hours |-> 9, minutes |-> 30, seconds |-> 7]

\* the value of an absent file or an absent tempName
NoFile == <<"absent">>
NoName == <<"undefined">>

----------------------------------------------------------------------------
(* The texts the model starts from.                                        *)

\* lines of a rule list for the counter: blank, rule entries (with and
\* without a comma, with an empty category), comments, and a line that ends
\* in a CR of its own
CountListLine ==
  { <<>>, <<" ">>, <<"D", "O", "M", "A", "I", "N", ",", "a">>, <<" ", "D", "O", "M", "A", "I", "N", "-", "S", "U", "F", "F", "I", "X", " ", ",", "b">>, <<",", "x">>, <<" ", "#", " ", "c">>, <<"#", " ", "T", "O", "T", "A", "L", ":", " ", "7">>,
    <<"D", "O", "M", "A", "I", "N", "\r">> }

\* the line endings a generated text uses between its lines
LineEnding == { <<LF>>, <<CR, LF>> }

RECURSIVE Glue(_, _)
Glue(ls, e) ==
  IF Len(ls) = 1 THEN ls[1] ELSE ls[1] \o e \o Glue(Tail(ls), e)

TextsOf(pool, n) ==
  { Glue(ls, e) : ls \in UNION { [1..m -> pool] : m \in 1..n }, e \in LineEnding }

----------------------------------------------------------------------------
(* parseCountsFromList.                                                    *)

\* isRuleLine without the trim: tests the raw line
isRuleLine_untrimmed(line) ==
  IF line = <<>> THEN FALSE
  ELSE IF startsWith(line, <<"#">>) THEN FALSE
  ELSE TRUE

isRuleLine(line) ==
  IF line = <<>> THEN FALSE
  ELSE LET trimmed == trim(line)
       IN  IF Len(trimmed) = 0 THEN FALSE
           ELSE IF startsWith(trimmed, <<"#">>) THEN FALSE
           ELSE TRUE

\* typeCounts[type] || 0
countOf(counts, type) == IF type \in DOMAIN counts THEN counts[type] ELSE 0

\* countLine with total += 1 moved above the test of type
countLine_totalFirst(acc, line) ==
  IF ~isRuleLine(line) THEN acc
  ELSE LET idx  == indexOf(line, <<",">>)
           type == trim(IF idx = -1 THEN line ELSE slice(line, 0, idx))
       IN  IF type = <<>> THEN [acc EXCEPT !.total = @ + 1]
           ELSE [ typeCounts |->
                    [t \in DOMAIN acc.typeCounts \cup {type} |->
                       IF t = type THEN countOf(acc.typeCounts, type) + 1
                       ELSE acc.typeCounts[t]],
                  total |-> acc.total + 1 ]

\* the body of the for loop, on the pair (typeCounts, total)
countLine(acc, line) ==
  IF ~isRuleLine(line) THEN acc
  ELSE LET idx  == indexOf(line, <<",">>)
           type == trim(IF idx = -1 THEN line ELSE slice(line, 0, idx))
       IN  IF type = <<>> THEN acc
           ELSE [ typeCounts |->
                    [t \in DOMAIN acc.typeCounts \cup {type} |->
                       IF t = type THEN countOf(acc.typeCounts, type) + 1
                       ELSE acc.typeCounts[t]],
                  total |-> acc.total + 1 ]

\* Object.create(null) and total = 0
NoCounts == [typeCounts |-> <<>>, total |-> 0]

RECURSIVE countLines(_, _)
countLines(acc, ls) ==
  IF ls = <<>> THEN acc ELSE countLines(countLine(acc, Head(ls)), Tail(ls))

\* the function as a whole: { typeCounts, total }
parseCountsFromList(content) == countLines(NoCounts, split(content))

\* the function step by step
ParseSplit ==
  /\ pc = "call"
  /\ lines' = split(listFile)
  /\ typeCounts' = NoCounts.typeCounts
  /\ total' = NoCounts.total
  /\ k' = 0
  /\ pc' = "loop"
  /\ UNCHANGED <<listFile, readmeFile, args, runs>>

ParseLine ==
  /\ pc = "loop"
  /\ k < Len(lines)
  /\ LET acc == countLine([typeCounts |-> typeCounts, total |-> total], lines[k + 1])
     IN  /\ typeCounts' = acc.typeCounts
         /\ total' = acc.total
  /\ k' = k + 1
  /\ UNCHANGED <<listFile, readmeFile, args, runs, pc, lines>>

ParseReturn ==
  /\ pc = "loop"
  /\ k = Len(lines)
  /\ pc' = "return"
  /\ UNCHANGED <<listFile, readmeFile, args, runs, lines, k, typeCounts, total>>

NoArgs == [updatedAt |-> <<>>, domainCount |-> 0, domainSuffixCount |-> 0,
           total |-> 0, tempName |-> NoName]

InitCount ==
  /\ listFile \in TextsOf(CountListLine, MaxCountLines)
  /\ readmeFile = NoFile
  /\ args = NoArgs
  /\ runs = <<>>
  /\ pc = "call"
  /\ lines = <<>>
  /\ k = 0
  /\ typeCounts = <<>>
  /\ total = 0

NextCount == ParseSplit \/ ParseLine \/ ParseReturn

SpecCount == InitCount /\ [][NextCount]_vars

----------------------------------------------------------------------------
(* updateListHeader.                                                       *)

\* the tag of the branch of the if chain a line takes, "" for the else branch
headerTag(line) ==
  IF startsWith(line, <<"#", " ", "U", "P", "D", "A", "T", "E", "D", ":">>) THEN "UPDATED"
  ELSE IF startsWith(line, <<"#", " ", "D", "O", "M", "A", "I", "N", ":">>) THEN "DOMAIN"
  ELSE IF startsWith(line, <<"#", " ", "D", "O", "M", "A", "I", "N", "-", "S", "U", "F", "F", "I", "X", ":">>) THEN "DOMAIN-SUFFIX"
  ELSE IF startsWith(line, <<"#", " ", "T", "O", "T", "A", "L", ":">>) THEN "TOTAL"
  ELSE ""

\* headerLine with the TOTAL line carrying domainCount
headerLine_totalFromDomain(tag, a) ==
  CASE tag = "UPDATED"       -> <<"#", " ", "U", "P", "D", "A", "T", "E", "D", ":", " ">> \o a.updatedAt
    [] tag = "DOMAIN"        -> <<"#", " ", "D", "O", "M", "A", "I", "N", ":", " ">> \o String(a.domainCount)
    [] tag = "DOMAIN-SUFFIX" -> <<"#", " ", "D", "O", "M", "A", "I", "N", "-", "S", "U", "F", "F", "I", "X", ":", " ">> \o String(a.domainSuffixCount)
    [] tag = "TOTAL"         -> <<"#", " ", "T", "O", "T", "A", "L", ":", " ">> \o String(a.domainCount)

\* the template literals `# UPDATED: ${updatedAt}`, `# DOMAIN: ${domainCount}`,
\* `# DOMAIN-SUFFIX: ${domainSuffixCount}` and `# TOTAL: ${total}`
headerLine(tag, a) ==
  CASE tag = "UPDATED"       -> <<"#", " ", "U", "P", "D", "A", "T", "E", "D", ":", " ">> \o a.updatedAt
    [] tag = "DOMAIN"        -> <<"#", " ", "D", "O", "M", "A", "I", "N", ":", " ">> \o String(a.domainCount)
    [] tag = "DOMAIN-SUFFIX" -> <<"#", " ", "D", "O", "M", "A", "I", "N", "-", "S", "U", "F", "F", "I", "X", ":", " ">> \o String(a.domainSuffixCount)
    [] tag = "TOTAL"         -> <<"#", " ", "T", "O", "T", "A", "L", ":", " ">> \o String(a.total)

\* rewriteLines with the else branch lost: only header lines are pushed
RECURSIVE rewriteLines_headersOnly(_, _)
rewriteLines_headersOnly(ls, a) ==
  IF ls = <<>> THEN <<>>
  ELSE (IF headerTag(Head(ls)) = "" THEN <<>>
        ELSE <<headerLine(headerTag(Head(ls)), a)>>)
       \o rewriteLines_headersOnly(Tail(ls), a)

\* the for loop: out after every line is pushed
RECURSIVE rewriteLines(_, _)
rewriteLines(ls, a) ==
  IF ls = <<>> THEN <<>>
  ELSE <<IF headerTag(Head(ls)) = "" THEN Head(ls)
         ELSE headerLine(headerTag(Head(ls)), a)>>
       \o rewriteLines(Tail(ls), a)

\* the flags hasUpdated, hasDomain, hasDomainSuffix, hasTotal after the loop
has(ls, tag) == \E n \in 1..Len(ls) : headerTag(ls[n]) = tag

\* Array.prototype.findIndex((l) => l.trim().length > 0)
findIndex(out) ==
  LET hits == {j \in 0..(Len(out) - 1) : Len(trim(out[j + 1])) > 0}
  IN  IF hits = {} THEN -1 ELSE Min(hits)

\* insertHeaderIfMissing inserting at idx, before the first non-empty line
insertHeaderIfMissing_before(out, headerInserted, line) ==
  IF headerInserted THEN out
  ELSE LET idx == findIndex(out)
       IN  splice(out, IF idx = -1 THEN 0 ELSE idx, line)

\* the closure insertHeaderIfMissing, on (out, headerInserted)
insertHeaderIfMissing(out, headerInserted, line) ==
  IF headerInserted THEN out
  ELSE LET idx      == findIndex(out)
           insertAt == IF idx = -1 THEN 0
                       ELSE IF idx + 1 < Len(out) THEN idx + 1 ELSE Len(out)
       IN  splice(out, insertAt, line)

\* insertMissing with the indices of DOMAIN and DOMAIN-SUFFIX exchanged
insertMissing_swapped(ls, out, a) ==
  LET o1 == IF ~has(ls, "UPDATED")
            THEN insertHeaderIfMissing(out, FALSE, headerLine("UPDATED", a)) ELSE out
      o2 == IF ~has(ls, "DOMAIN") THEN splice(o1, 3, headerLine("DOMAIN", a)) ELSE o1
      o3 == IF ~has(ls, "DOMAIN-SUFFIX")
            THEN splice(o2, 2, headerLine("DOMAIN-SUFFIX", a)) ELSE o2
  IN  IF ~has(ls, "TOTAL") THEN splice(o3, 4, headerLine("TOTAL", a)) ELSE o3

\* the four statements after the loop, in their order
insertMissing(ls, out, a) ==
  LET o1 == IF ~has(ls, "UPDATED")
            THEN insertHeaderIfMissing(out, FALSE, headerLine("UPDATED", a)) ELSE out
      o2 == IF ~has(ls, "DOMAIN") THEN splice(o1, 2, headerLine("DOMAIN", a)) ELSE o1
      o3 == IF ~has(ls, "DOMAIN-SUFFIX")
            THEN splice(o2, 3, headerLine("DOMAIN-SUFFIX", a)) ELSE o2
  IN  IF ~has(ls, "TOTAL") THEN splice(o3, 4, headerLine("TOTAL", a)) ELSE o3

updateListHeader(content, a) ==
  LET ls == split(content)
  IN  join(insertMissing(ls, rewriteLines(ls, a), a))

\* lines of a rule list for the header rewriter: blank, rule and comment
\* lines, the four header lines, and a line that ends in a CR of its own
HeaderListLine ==
  { <<>>, <<" ">>, <<"D", "O", "M", "A", "I", "N", ",", "a">>, <<" ", "#", " ", "T", "O", "T", "A", "L", ":", " ", "7">>, <<"#", " ", "U", "P", "D", "A", "T", "E", "D", ":", " ", "o", "l", "d">>, <<"#", " ", "D", "O", "M", "A", "I", "N", ":", " ", "7">>,
    <<"#", " ", "D", "O", "M", "A", "I", "N", "-", "S", "U", "F", "F", "I", "X", ":", " ", "7">>, <<"#", " ", "T", "O", "T", "A", "L", ":", " ", "7">>, <<"D", "O", "M", "A", "I", "N", "\r">> }

\* the counts and timestamp updateListHeader is called with
ListArgs ==
  { [NoArgs EXCEPT !.updatedAt = formatDate(Now), !.domainCount = 12,
                   !.domainSuffixCount = 3, !.total = 15] }

\* one run of the rewriter over the list file, the result written back
RunListHeader ==
  /\ Len(runs) < MaxRuns
  /\ runs' = Append(runs, [list |-> listFile, readme |-> readmeFile])
  /\ listFile' = updateListHeader(listFile, args)
  /\ UNCHANGED <<readmeFile, args, pc, lines, k, typeCounts, total>>

InitList ==
  /\ listFile \in TextsOf(HeaderListLine, MaxListLines)
  /\ readmeFile = NoFile
  /\ args \in ListArgs
  /\ runs = <<>>
  /\ pc = "idle"
  /\ lines = <<>>
  /\ k = 0
  /\ typeCounts = <<>>
  /\ total = 0

NextList == RunListHeader

SpecList == InitList /\ [][NextList]_vars

----------------------------------------------------------------------------
(* updateReadme.                                                           *)

updatedAtPrefix == <<"U+6700", "U+540E", "U+66F4", "U+65B0", "U+65F6", "U+95F4", "U+FF1A">>

\* tableMatchers: the keys in their order, and the value of each
tableKeys == << <<"D", "O", "M", "A", "I", "N">>, <<"D", "O", "M", "A", "I", "N", "-", "S", "U", "F", "F", "I", "X">>, <<"T", "O", "T", "A", "L">> >>

tableValue(n, a) ==
  CASE n = 1 -> a.domainCount [] n = 2 -> a.domainSuffixCount [] n = 3 -> a.total

\* the end of the run of characters of class C that starts at 1-based
\* position j: what a greedy \s* or \d+ consumes
RECURSIVE skip(_, _, _)
skip(s, j, C) == IF j <= Len(s) /\ s[j] \in C THEN skip(s, j + 1, C) ELSE j

\* regex.test(line) for ^\|\s*KEY\s*\|\s*\d+\s*\|$ (the classes that meet
\* are disjoint, so the greedy match is the only one)
testRow(line, key) ==
  /\ Len(line) >= 1
  /\ line[1] = "|"
  /\ LET kb == skip(line, 2, WhiteSpace)
         ke == kb + Len(key)
     IN  /\ ke - 1 <= Len(line)
         /\ SubSeq(line, kb, ke - 1) = key
         /\ LET p2 == skip(line, ke, WhiteSpace)
            IN  /\ p2 <= Len(line)
                /\ line[p2] = "|"
                /\ LET db == skip(line, p2 + 1, WhiteSpace)
                       de == skip(line, db, Digit)
                       p3 == skip(line, de, WhiteSpace)
                   IN  /\ de > db
                       /\ p3 = Len(line)
                       /\ line[p3] = "|"

\* `| ${key.padEnd(14, ' ')} | ${String(value).padEnd(5, ' ')} |`
tableRow(key, value) ==
  <<"|", " ">> \o padEnd(key, 14) \o <<" ", "|", " ">> \o padEnd(String(value), 5) \o <<" ", "|">>

\* the first matcher whose regex tests true, 0 if none: the for loop
firstMatcher(line) ==
  LET hits == {n \in 1..Len(tableKeys) : testRow(line, tableKeys[n])}
  IN  IF hits = {} THEN 0 ELSE Min(hits)

\* readmeLine with the TempName rule tried before the datetime rule
readmeLine_tempNameFirst(line, a) ==
  IF startsWith(line, updatedAtPrefix) THEN updatedAtPrefix \o a.updatedAt
  ELSE IF firstMatcher(line) # 0
    THEN tableRow(tableKeys[firstMatcher(line)], tableValue(firstMatcher(line), a))
  ELSE IF includes(line, <<"$", "{", "{", " ", "T", "e", "m", "p", "N", "a", "m", "e", " ", "}", "}">>) /\ a.tempName # NoName
    THEN replaceAll(line, <<"$", "{", "{", " ", "T", "e", "m", "p", "N", "a", "m", "e", " ", "}", "}">>, a.tempName)
  ELSE IF includes(line, <<"$", "{", "{", " ", "d", "a", "t", "e", "t", "i", "m", "e", " ", "}", "}">>)
    THEN replace(line, <<"$", "{", "{", " ", "d", "a", "t", "e", "t", "i", "m", "e", " ", "}", "}">>, a.updatedAt)
  ELSE line

\* readmeLine with every row written with domainCount
readmeLine_domainEverywhere(line, a) ==
  IF startsWith(line, updatedAtPrefix) THEN updatedAtPrefix \o a.updatedAt
  ELSE IF firstMatcher(line) # 0
    THEN tableRow(tableKeys[firstMatcher(line)], a.domainCount)
  ELSE IF includes(line, <<"$", "{", "{", " ", "d", "a", "t", "e", "t", "i", "m", "e", " ", "}", "}">>)
    THEN replace(line, <<"$", "{", "{", " ", "d", "a", "t", "e", "t", "i", "m", "e", " ", "}", "}">>, a.updatedAt)
  ELSE IF includes(line, <<"$", "{", "{", " ", "T", "e", "m", "p", "N", "a", "m", "e", " ", "}", "}">>) /\ a.tempName # NoName
    THEN replaceAll(line, <<"$", "{", "{", " ", "T", "e", "m", "p", "N", "a", "m", "e", " ", "}", "}">>, a.tempName)
  ELSE line

\* the callback of lines.map
readmeLine(line, a) ==
  IF startsWith(line, updatedAtPrefix) THEN updatedAtPrefix \o a.updatedAt
  ELSE IF firstMatcher(line) # 0
    THEN tableRow(tableKeys[firstMatcher(line)], tableValue(firstMatcher(line), a))
  ELSE IF includes(line, <<"$", "{", "{", " ", "d", "a", "t", "e", "t", "i", "m", "e", " ", "}", "}">>)
    THEN replace(line, <<"$", "{", "{", " ", "d", "a", "t", "e", "t", "i", "m", "e", " ", "}", "}">>, a.updatedAt)
  ELSE IF includes(line, <<"$", "{", "{", " ", "T", "e", "m", "p", "N", "a", "m", "e", " ", "}", "}">>) /\ a.tempName # NoName
    THEN replaceAll(line, <<"$", "{", "{", " ", "T", "e", "m", "p", "N", "a", "m", "e", " ", "}", "}">>, a.tempName)
  ELSE line

updateReadme(content, a) ==
  LET ls == split(content)
  IN  join([n \in 1..Len(ls) |-> readmeLine(ls[n], a)])

\* lines of a README: the label line, table rows in and out of shape,
\* lines with one, two or both placeholders, and plain lines
ReadmeLine ==
  { updatedAtPrefix \o <<"o", "l", "d">>, updatedAtPrefix \o <<"$", "{", "{", " ", "d", "a", "t", "e", "t", "i", "m", "e", " ", "}", "}">>,
    <<"|", " ", "D", "O", "M", "A", "I", "N", " ", "|", " ", "3", " ", "|">>, <<"|", "D", "O", "M", "A", "I", "N", "-", "S", "U", "F", "F", "I", "X", "|", "1", "2", "|">>, <<"|", " ", " ", "T", "O", "T", "A", "L", "\t", "|", " ", " ", "7", " ", " ", "|">>,
    <<"|", " ", "O", "T", "H", "E", "R", " ", "|", " ", "3", " ", "|">>, <<"|", " ", "D", "O", "M", "A", "I", "N", " ", "|", " ", "x", " ", "|">>, <<"|", " ", "$", "{", "{", " ", "T", "e", "m", "p", "N", "a", "m", "e", " ", "}", "}", " ", "|", " ", "5", " ", "|">>,
    <<" ", "|", " ", "D", "O", "M", "A", "I", "N", " ", "|", " ", "3", " ", "|">>, <<"|", " ", "T", "O", "T", "A", "L", " ", "|", " ", "3", " ", "|", "\r">>,
    <<"$", "{", "{", " ", "d", "a", "t", "e", "t", "i", "m", "e", " ", "}", "}">>, <<"a", " ", "$", "{", "{", " ", "d", "a", "t", "e", "t", "i", "m", "e", " ", "}", "}", " ", "$", "{", "{", " ", "d", "a", "t", "e", "t", "i", "m", "e", " ", "}", "}">>,
    <<"$", "{", "{", " ", "d", "a", "t", "e", "t", "i", "m", "e", " ", "}", "}", " ", "$", "{", "{", " ", "T", "e", "m", "p", "N", "a", "m", "e", " ", "}", "}">>, <<"$", "{", "{", " ", "T", "e", "m", "p", "N", "a", "m", "e", " ", "}", "}", "$", "{", "{", " ", "T", "e", "m", "p", "N", "a", "m", "e", " ", "}", "}">>,
    <<"#", " ", "t">>, <<>> }

\* the values updateReadme is called with: tempName given and not
ReadmeArgs ==
  { [NoArgs EXCEPT !.updatedAt = formatDate(Now), !.domainCount = 12,
                   !.domainSuffixCount = 3, !.total = 15, !.tempName = <<"A", "p", "p", "l", "e">>],
    [NoArgs EXCEPT !.updatedAt = formatDate(Now), !.domainCount = 12,
                   !.domainSuffixCount = 3, !.total = 15] }

\* one run of the rewriter over the README, the result written back
RunReadme ==
  /\ Len(runs) < MaxRuns
  /\ runs' = Append(runs, [list |-> listFile, readme |-> readmeFile])
  /\ readmeFile' = updateReadme(readmeFile, args)
  /\ UNCHANGED <<listFile, args, pc, lines, k, typeCounts, total>>

InitReadme ==
  /\ listFile = NoFile
  /\ readmeFile \in TextsOf(ReadmeLine, MaxReadmeLines)
  /\ args \in ReadmeArgs
  /\ runs = <<>>
  /\ pc = "idle"
  /\ lines = <<>>
  /\ k = 0
  /\ typeCounts = <<>>
  /\ total = 0

NextReadme == RunReadme

SpecReadme == InitReadme /\ [][NextReadme]_vars

----------------------------------------------------------------------------
(* processRuleDir.                                                         *)

\* path.basename(listFile, '.list'): the directory's list is Apple.list
tempNameOfList == <<"A", "p", "p", "l", "e">>

\* lines of a rule list for the driver: rule entries of both categories,
\* an entry with an empty category, header lines, a line ending in a CR
SyncListLine ==
  { <<"D", "O", "M", "A", "I", "N", ",", "a">>, <<" ", "D", "O", "M", "A", "I", "N", "-", "S", "U", "F", "F", "I", "X", " ", ",", "b">>, <<",", "x">>, <<"#", " ", "U", "P", "D", "A", "T", "E", "D", ":", " ", "o", "l", "d">>, <<"#", " ", "D", "O", "M", "A", "I", "N", ":", " ", "7">>,
    <<"#", " ", "T", "O", "T", "A", "L", ":", " ", "7">>, <<"D", "O", "M", "A", "I", "N", "\r">> }

\* the README beside the list, when there is one
SyncReadme ==
  Glue(<< updatedAtPrefix \o <<"o", "l", "d">>, <<"|", " ", "D", "O", "M", "A", "I", "N", " ", "|", " ", "3", " ", "|">>, <<"$", "{", "{", " ", "T", "e", "m", "p", "N", "a", "m", "e", " ", "}", "}">> >>, <<LF>>)

\* the values processRuleDir computes and hands to both rewriters
argsOf(listContent) ==
  LET parsed == parseCountsFromList(listContent)
  IN  [ updatedAt         |-> formatDate(Now),
        domainCount       |-> countOf(parsed.typeCounts, <<"D", "O", "M", "A", "I", "N">>),
        domainSuffixCount |-> countOf(parsed.typeCounts, <<"D", "O", "M", "A", "I", "N", "-", "S", "U", "F", "F", "I", "X">>),
        total             |-> parsed.total,
        tempName          |-> tempNameOfList ]

\* one call of processRuleDir; a directory without a .list is left alone
ProcessRuleDir ==
  /\ Len(runs) < MaxRuns
  /\ runs' = Append(runs, [list |-> listFile, readme |-> readmeFile])
  /\ IF listFile = NoFile
     THEN UNCHANGED <<listFile, readmeFile, args>>
     ELSE /\ args' = argsOf(listFile)
          /\ listFile' = updateListHeader(listFile, args')
          /\ readmeFile' = IF readmeFile = NoFile THEN NoFile
                           ELSE updateReadme(readmeFile, args')
  /\ UNCHANGED <<pc, lines, k, typeCounts, total>>

Init ==
  /\ listFile \in TextsOf(SyncListLine, MaxSyncLines) \cup {NoFile}
  /\ readmeFile \in {NoFile, SyncReadme}
  /\ args = NoArgs
  /\ runs = <<>>
  /\ pc = "idle"
  /\ lines = <<>>
  /\ k = 0
  /\ typeCounts = <<>>
  /\ total = 0

Next == ProcessRuleDir

Spec == Init /\ [][Next]_vars

----------------------------------------------------------------------------
(* What the claims speak of, stated on the texts themselves.               *)

Max(S) == CHOOSE x \in S : \A y \in S : x >= y

\* a text cut at its LF characters, from its end towards its start (the
\* lines join('\n') put together)
RECURSIVE LFLinesOf(_)
LFLinesOf(s) ==
  LET at == {j \in 1..Len(s) : s[j] = LF}
  IN  IF at = {} THEN <<s>>
      ELSE Append(LFLinesOf(SubSeq(s, 1, Max(at) - 1)), SubSeq(s, Max(at) + 1, Len(s)))

\* a text cut at CRLF or LF: cut at LF, and a CR that stood before an LF
\* goes with it
LinesOf(s) ==
  LET cut == LFLinesOf(s)
  IN  [n \in 1..Len(cut) |->
         IF n < Len(cut) /\ cut[n] # <<>> /\ cut[n][Len(cut[n])] = CR
         THEN SubSeq(cut[n], 1, Len(cut[n]) - 1)
         ELSE cut[n]]

\* empty or whitespace only
IsBlank(l) == \A j \in 1..Len(l) : l[j] \in WhiteSpace

\* the first non-whitespace character is #
IsComment(l) ==
  \E j \in 1..Len(l) : l[j] = "#" /\ \A i \in 1..(j - 1) : l[i] \in WhiteSpace

\* some non-whitespace character stands before the first comma
HasCategory(l) ==
  \E j \in 1..Len(l) : l[j] \notin (WhiteSpace \cup {","})
                         /\ \A i \in 1..(j - 1) : l[i] # ","

\* the lines, among ls, that are neither blank nor comments
EntryLines(ls) == SelectSeq(ls, LAMBDA l : ~IsBlank(l) /\ ~IsComment(l))

RECURSIVE SumOf(_)
SumOf(f) ==
  IF DOMAIN f = {} THEN 0
  ELSE LET t == CHOOSE t \in DOMAIN f : TRUE
       IN  f[t] + SumOf([u \in DOMAIN f \ {t} |-> f[u]])

----------------------------------------------------------------------------
(* Claims about parseCountsFromList, under SpecCount.                      *)

\* C1 as stated: the total parseCountsFromList returns is the number of lines
\* (cut at CRLF or LF) that are neither blank nor comments.
C1_TotalIsEntryLines ==
  pc = "return" => total = Len(EntryLines(LinesOf(listFile)))

\* C1 as amended: the total parseCountsFromList returns is the number of lines
\* that are neither blank nor comments and have a non-empty category, that
\* is, some non-whitespace text before their first comma.
C1_TotalIsCategorisedLines ==
  pc = "return" =>
    total = Len(SelectSeq(EntryLines(LinesOf(listFile)), HasCategory))

\* a list with counted entries and an entry whose category is empty
C1_Witness ==
  /\ pc = "return"
  /\ total = 2
  /\ Len(EntryLines(LinesOf(listFile))) = 3

\* C2: in every state of parseCountsFromList, before, between and after the
\* lines of the loop, the per-category counts add up to total.
C2_CountsSumToTotal == SumOf(typeCounts) = total

\* mid-loop, two categories counted, an empty-category line already passed
C2_Witness ==
  /\ pc = "loop"
  /\ k = 2
  /\ k < Len(lines)
  /\ Cardinality(DOMAIN typeCounts) = 1
  /\ total = 1
  /\ \E n \in 1..k : lines[n] = <<",", "x">>

----------------------------------------------------------------------------
(* Claims about updateListHeader, under SpecList.                          *)

DigitValue(c) ==
  CASE c = "0" -> 0 [] c = "1" -> 1 [] c = "2" -> 2 [] c = "3" -> 3
    [] c = "4" -> 4 [] c = "5" -> 5 [] c = "6" -> 6 [] c = "7" -> 7
    [] c = "8" -> 8 [] c = "9" -> 9

\* the decimal numeral of n < 100: tens digit, unless zero, and units digit
Numeral(n) ==
  LET digit(d) == CHOOSE c \in Digit : DigitValue(c) = d
  IN  IF n < 10 THEN <<digit(n)>> ELSE <<digit(n \div 10), digit(n % 10)>>

HeaderTags == {"UPDATED", "DOMAIN", "DOMAIN-SUFFIX", "TOTAL"}

TagPrefix(tag) ==
  CASE tag = "UPDATED"       -> <<"#", " ", "U", "P", "D", "A", "T", "E", "D", ":">>
    [] tag = "DOMAIN"        -> <<"#", " ", "D", "O", "M", "A", "I", "N", ":">>
    [] tag = "DOMAIN-SUFFIX" -> <<"#", " ", "D", "O", "M", "A", "I", "N", "-", "S", "U", "F", "F", "I", "X", ":">>
    [] tag = "TOTAL"         -> <<"#", " ", "T", "O", "T", "A", "L", ":">>

\* line l starts with the text p
Begins(l, p) == Len(l) >= Len(p) /\ \A j \in 1..Len(p) : l[j] = p[j]

IsHeaderLine(l) == \E tag \in HeaderTags : Begins(l, TagPrefix(tag))

\* the canonical line `# TAG: value` for the values a
CanonicalLine(tag, a) ==
  TagPrefix(tag) \o <<" ">> \o
    (CASE tag = "UPDATED"       -> a.updatedAt
       [] tag = "DOMAIN"        -> Numeral(a.domainCount)
       [] tag = "DOMAIN-SUFFIX" -> Numeral(a.domainSuffixCount)
       [] tag = "TOTAL"         -> Numeral(a.total))

\* no line among ls starts with the tag's prefix
Missing(ls, tag) == \A n \in 1..Len(ls) : ~Begins(ls[n], TagPrefix(tag))

\* the lines of the text the latest run read, and of the text it wrote
Read == LinesOf(runs[Len(runs)].list)
Written == LFLinesOf(listFile)

\* C3 as stated: a second run of updateListHeader with the same values
\* returns, character for character, what the first run returned.
C3_ListHeaderIdempotent == Len(runs) >= 2 => listFile = runs[Len(runs)].list

\* C4: the lines of the returned text that start with none of the four
\* prefixes are, in text and order, the lines of the input (cut at CRLF or
\* LF) that start with none of them.
C4_NonHeaderLinesKept ==
  Len(runs) >= 1 =>
    SelectSeq(Written, LAMBDA l : ~IsHeaderLine(l))
      = SelectSeq(Read, LAMBDA l : ~IsHeaderLine(l))

\* a run that replaced a header line, inserted missing ones and passed
\* comment and rule lines through
C4_Witness ==
  /\ Len(runs) = 1
  /\ Read = << <<" ", "#", " ", "T", "O", "T", "A", "L", ":", " ", "7">>, <<"#", " ", "D", "O", "M", "A", "I", "N", ":", " ", "7">>, <<"D", "O", "M", "A", "I", "N", ",", "a">> >>
  /\ Written[2] = <<"#", " ", "U", "P", "D", "A", "T", "E", "D", ":", " ", "2", "0", "2", "5", "-", "0", "1", "-", "0", "5", " ", "0", "9", ":", "3", "0", ":", "0", "7">>
  /\ Written[3] = <<"#", " ", "D", "O", "M", "A", "I", "N", ":", " ", "1", "2">>
  /\ Written[4] = <<"#", " ", "D", "O", "M", "A", "I", "N", "-", "S", "U", "F", "F", "I", "X", ":", " ", "3">>
  /\ Written[5] = <<"#", " ", "T", "O", "T", "A", "L", ":", " ", "1", "5">>
  /\ Written[6] = <<"D", "O", "M", "A", "I", "N", ",", "a">>

\* the 0-based index each tag is inserted at when missing
FixedIndex(tag) ==
  CASE tag = "DOMAIN" -> 2 [] tag = "DOMAIN-SUFFIX" -> 3 [] tag = "TOTAL" -> 4

\* C5 as stated: a tag among DOMAIN, DOMAIN-SUFFIX, TOTAL that no input
\* line starts with has its canonical line at index 2, 3, 4 of the
\* returned text.
C5_MissingTagAtFixedIndex ==
  Len(runs) >= 1 =>
    LET r == Read
        w == Written
    IN  \A tag \in {"DOMAIN", "DOMAIN-SUFFIX", "TOTAL"} :
          Missing(r, tag) =>
            /\ Len(w) > FixedIndex(tag)
            /\ w[FixedIndex(tag) + 1] = CanonicalLine(tag, args)

\* the number of tags among ts that the lines ls miss
MissingAmong(ls, ts) == Cardinality({t \in ts : Missing(ls, t)})

\* the length of the line sequence when a missing tag is inserted: the
\* input's lines, the UPDATED line if it was missing, and the missing tags
\* inserted before it
LengthAtInsert(ls, tag) ==
  Len(ls) + MissingAmong(ls, {"UPDATED"})
    + MissingAmong(ls, CASE tag = "DOMAIN"        -> {}
                         [] tag = "DOMAIN-SUFFIX" -> {"DOMAIN"}
                         [] tag = "TOTAL"         -> {"DOMAIN", "DOMAIN-SUFFIX"})

Least(a, b) == IF a < b THEN a ELSE b

\* C5 as amended: a missing tag has its canonical line at its fixed index
\* or, when the line sequence is shorter than that index at the moment of
\* insertion, at the end of that sequence.
C5_MissingTagAtClampedIndex ==
  Len(runs) >= 1 =>
    LET r == Read
        w == Written
    IN  \A tag \in {"DOMAIN", "DOMAIN-SUFFIX", "TOTAL"} :
          Missing(r, tag) =>
            LET at == Least(FixedIndex(tag), LengthAtInsert(r, tag))
            IN  /\ Len(w) > at
                /\ w[at + 1] = CanonicalLine(tag, args)

\* a one-line list: the three missing tags land at indices 1, 2 and 3
C5_Witness ==
  /\ Len(runs) = 1
  /\ Read = << <<"#", " ", "U", "P", "D", "A", "T", "E", "D", ":", " ", "o", "l", "d">> >>
  /\ Len(Written) = 4
  /\ Written[2] = CanonicalLine("DOMAIN", args)
  /\ Written[4] = CanonicalLine("TOTAL", args)

\* the 0-based index of the first non-blank line among ls, or -1
FirstNonBlank(ls) ==
  LET ns == {n \in 1..Len(ls) : ~IsBlank(ls[n])}
  IN  IF ns = {} THEN -1 ELSE (CHOOSE n \in ns : \A m \in ns : n <= m) - 1

\* what an input line is in the output: itself, or its canonical line
Rewritten(l, a) ==
  IF IsHeaderLine(l)
  THEN CanonicalLine(CHOOSE tag \in HeaderTags : Begins(l, TagPrefix(tag)), a)
  ELSE l

\* C9 as stated: when no input line starts with # UPDATED:, the returned
\* text has the canonical UPDATED line directly after the first non-blank
\* input line, or as its first line if every input line is blank.
C9_UpdatedAfterFirstNonBlank ==
  (Len(runs) >= 1 /\ Missing(Read, "UPDATED")) =>
    LET r == Read
        w == Written
        f == FirstNonBlank(r)
    IN  IF f = -1
        THEN w[1] = CanonicalLine("UPDATED", args)
        ELSE \E j \in 2..Len(w) :
               /\ w[j] = CanonicalLine("UPDATED", args)
               /\ w[j - 1] = Rewritten(r[f + 1], args)

\* where a line at 0-based index p stands after the missing tags among
\* DOMAIN, DOMAIN-SUFFIX, TOTAL are inserted: an insertion at or before it
\* moves it one place down
AfterInserts(ls, p) ==
  LET at(tag) == Least(FixedIndex(tag), LengthAtInsert(ls, tag))
      p1 == IF Missing(ls, "DOMAIN") /\ at("DOMAIN") <= p THEN p + 1 ELSE p
      p2 == IF Missing(ls, "DOMAIN-SUFFIX") /\ at("DOMAIN-SUFFIX") <= p1
            THEN p1 + 1 ELSE p1
  IN  IF Missing(ls, "TOTAL") /\ at("TOTAL") <= p2 THEN p2 + 1 ELSE p2

\* C9 as amended: the UPDATED line is inserted directly after the first
\* non-blank line (at position 0 if all are blank); the insertions of
\* missing DOMAIN, DOMAIN-SUFFIX and TOTAL lines that follow may fall
\* between the two, so in the returned text the UPDATED line comes after
\* the first non-blank input line with nothing but such inserted lines
\* between them, and directly after it when none of the three is missing
\* or that line is the first line.
C9_UpdatedAfterFirstNonBlankUpToInserts ==
  (Len(runs) >= 1 /\ Missing(Read, "UPDATED")) =>
    LET r  == Read
        w  == Written
        f  == FirstNonBlank(r)
        pU == AfterInserts(r, IF f = -1 THEN 0 ELSE f + 1)
        pA == AfterInserts(r, f)
    IN  /\ Len(w) > pU
        /\ w[pU + 1] = CanonicalLine("UPDATED", args)
        /\ f = -1 => pU = 0
        /\ f # -1 =>
             /\ pA < pU
             /\ w[pA + 1] = Rewritten(r[f + 1], args)
             /\ \A j \in (pA + 1)..(pU - 1) :
                  \E tag \in {"DOMAIN", "DOMAIN-SUFFIX", "TOTAL"} :
                    Missing(r, tag) /\ w[j + 1] = CanonicalLine(tag, args)
             /\ (f = 0 \/ MissingAmong(r, {"DOMAIN", "DOMAIN-SUFFIX", "TOTAL"}) = 0)
                  => pU = pA + 1

\* a blank first line: the three inserted tags stand between the first
\* non-blank line and the UPDATED line
C9_Witness ==
  /\ Len(runs) = 1
  /\ Read = << <<>>, <<"D", "O", "M", "A", "I", "N", ",", "a">> >>
  /\ Len(Written) = 6
  /\ Written[2] = <<"D", "O", "M", "A", "I", "N", ",", "a">>
  /\ Written[6] = CanonicalLine("UPDATED", args)

----------------------------------------------------------------------------
(* Claims about updateReadme, under SpecReadme.                            *)

\* the lines of the README the latest run read, and of the one it wrote
ReadmeRead == LinesOf(runs[Len(runs)].readme)
ReadmeWritten == LFLinesOf(readmeFile)

Label == <<"U+6700", "U+540E", "U+66F4", "U+65B0", "U+65F6", "U+95F4", "U+FF1A">>
DatetimeToken == <<"$", "{", "{", " ", "d", "a", "t", "e", "t", "i", "m", "e", " ", "}", "}">>
TempNameToken == <<"$", "{", "{", " ", "T", "e", "m", "p", "N", "a", "m", "e", " ", "}", "}">>
RowKeys == { <<"D", "O", "M", "A", "I", "N">>, <<"D", "O", "M", "A", "I", "N", "-", "S", "U", "F", "F", "I", "X">>, <<"T", "O", "T", "A", "L">> }

\* a text without the whitespace around it
Core(f) ==
  LET ink == {j \in 1..Len(f) : f[j] \notin WhiteSpace}
  IN  IF ink = {} THEN <<>> ELSE SubSeq(f, Min(ink), Max(ink))

\* the two fields of a line of the shape | field | field |, with nothing
\* before the first or after the last pipe; <<>> for any other line
Fields(l) ==
  LET pipes == {j \in 1..Len(l) : l[j] = "|"}
  IN  IF Cardinality(pipes) = 3 /\ 1 \in pipes /\ Len(l) \in pipes
      THEN LET mid == CHOOSE j \in pipes : j # 1 /\ j # Len(l)
           IN  <<Core(SubSeq(l, 2, mid - 1)), Core(SubSeq(l, mid + 1, Len(l) - 1))>>
      ELSE <<>>

IsNumber(f) == f # <<>> /\ \A j \in 1..Len(f) : f[j] \in Digit

\* the line is the row | key | digits |
IsRowOf(l, key) == Fields(l) # <<>> /\ Fields(l)[1] = key /\ IsNumber(Fields(l)[2])

Spaces(n) == [j \in 1..n |-> " "]

CountFor(key, a) ==
  CASE key = <<"D", "O", "M", "A", "I", "N">>        -> a.domainCount
    [] key = <<"D", "O", "M", "A", "I", "N", "-", "S", "U", "F", "F", "I", "X">> -> a.domainSuffixCount
    [] key = <<"T", "O", "T", "A", "L">>         -> a.total

\* the canonical row: the key in 14 places, the count in 5
CanonicalRow(key, a) ==
  <<"|", " ">> \o key \o Spaces(14 - Len(key)) \o <<" ", "|", " ">>
    \o Numeral(CountFor(key, a)) \o Spaces(5 - Len(Numeral(CountFor(key, a)))) \o <<" ", "|">>

\* the text t stands in l at 1-based position j
Occurs(l, t, j) == j + Len(t) - 1 <= Len(l) /\ \A i \in 1..Len(t) : l[j + i - 1] = t[i]
Contains(l, t) == \E j \in 1..Len(l) : Occurs(l, t, j)

\* C6 as stated: a row | KEY | digits | with KEY among DOMAIN,
\* DOMAIN-SUFFIX, TOTAL becomes the canonical row with that key's count;
\* a two-column row with another key or a value that is no number is left
\* unchanged.
C6_TableRows ==
  Len(runs) >= 1 =>
    LET r == ReadmeRead
        w == ReadmeWritten
    IN  \A n \in 1..Len(r) :
          /\ \A key \in RowKeys : IsRowOf(r[n], key) => w[n] = CanonicalRow(key, args)
          /\ (Fields(r[n]) # <<>> /\ \A key \in RowKeys : ~IsRowOf(r[n], key))
               => w[n] = r[n]

\* C6 as amended: the same, except that a two-column row with another key
\* or a value that is no number is left unchanged only if it holds no
\* placeholder that the later rules replace.
C6_TableRowsButPlaceholders ==
  Len(runs) >= 1 =>
    LET r == ReadmeRead
        w == ReadmeWritten
    IN  \A n \in 1..Len(r) :
          /\ \A key \in RowKeys : IsRowOf(r[n], key) => w[n] = CanonicalRow(key, args)
          /\ ( /\ Fields(r[n]) # <<>>
               /\ \A key \in RowKeys : ~IsRowOf(r[n], key)
               /\ ~Contains(r[n], DatetimeToken)
               /\ ~(Contains(r[n], TempNameToken) /\ args.tempName # NoName) )
               => w[n] = r[n]

\* a DOMAIN-SUFFIX row without spaces rewritten with its own count, beside
\* a row whose value is no number
C6_Witness ==
  /\ Len(runs) = 1
  /\ ReadmeRead = << <<"|", "D", "O", "M", "A", "I", "N", "-", "S", "U", "F", "F", "I", "X", "|", "1", "2", "|">>, <<"|", " ", "D", "O", "M", "A", "I", "N", " ", "|", " ", "x", " ", "|">> >>
  /\ ReadmeWritten = << <<"|", " ", "D", "O", "M", "A", "I", "N", "-", "S", "U", "F", "F", "I", "X", " ", " ", "|", " ", "3", " ", " ", " ", " ", " ", "|">>, <<"|", " ", "D", "O", "M", "A", "I", "N", " ", "|", " ", "x", " ", "|">> >>

\* the text l with the first t in it replaced by r
FirstReplaced(l, t, r) ==
  LET j == CHOOSE j \in 1..Len(l) :
             Occurs(l, t, j) /\ \A i \in 1..(j - 1) : ~Occurs(l, t, i)
  IN  SubSeq(l, 1, j - 1) \o r \o SubSeq(l, j + Len(t), Len(l))

\* the text l with every t in it replaced by r, taken from the last one back
RECURSIVE AllReplaced(_, _, _)
AllReplaced(l, t, r) ==
  IF ~Contains(l, t) THEN l
  ELSE LET j == Max({i \in 1..Len(l) : Occurs(l, t, i)})
       IN  AllReplaced(SubSeq(l, 1, j - 1), t, r) \o r \o SubSeq(l, j + Len(t), Len(l))

\* the first rule of the four that applies to the line, applied to it
ByFirstRule(l, a) ==
  IF Begins(l, Label) THEN Label \o a.updatedAt
  ELSE IF \E key \in RowKeys : IsRowOf(l, key)
    THEN CanonicalRow(CHOOSE key \in RowKeys : IsRowOf(l, key), a)
  ELSE IF Contains(l, DatetimeToken) THEN FirstReplaced(l, DatetimeToken, a.updatedAt)
  ELSE IF Contains(l, TempNameToken) /\ a.tempName # NoName
    THEN AllReplaced(l, TempNameToken, a.tempName)
  ELSE l

\* C7: the returned text has as many lines as the input (cut at CRLF or
\* LF), and each is the input line under the first rule that applies to
\* it: label line, table row, datetime placeholder (first one), TempName
\* placeholder (all, if tempName is given); else the line itself.
C7_FirstRulePerLine ==
  Len(runs) >= 1 =>
    LET r == ReadmeRead
        w == ReadmeWritten
    IN  /\ Len(w) = Len(r)
        /\ \A n \in 1..Len(r) : w[n] = ByFirstRule(r[n], args)

\* a line with both placeholders keeps its TempName; a line with two
\* TempName placeholders loses both
C7_Witness ==
  /\ Len(runs) = 1
  /\ ReadmeRead = << <<"$", "{", "{", " ", "d", "a", "t", "e", "t", "i", "m", "e", " ", "}", "}", " ", "$", "{", "{", " ", "T", "e", "m", "p", "N", "a", "m", "e", " ", "}", "}">>, <<"$", "{", "{", " ", "T", "e", "m", "p", "N", "a", "m", "e", " ", "}", "}", "$", "{", "{", " ", "T", "e", "m", "p", "N", "a", "m", "e", " ", "}", "}">> >>
  /\ ReadmeWritten = << <<"2", "0", "2", "5", "-", "0", "1", "-", "0", "5", " ", "0", "9", ":", "3", "0", ":", "0", "7", " ", "$", "{", "{", " ", "T", "e", "m", "p", "N", "a", "m", "e", " ", "}", "}">>, <<"A", "p", "p", "l", "e", "A", "p", "p", "l", "e">> >>

\* C8 as stated: a second run of updateReadme with the same values returns
\* what the first run returned.
C8_ReadmeIdempotent == Len(runs) >= 2 => readmeFile = runs[Len(runs)].readme

\* the number of places the text t stands at in l
Times(l, t) == Cardinality({j \in 1..Len(l) : Occurs(l, t, j)})

\* C8 as stated, for the READMEs it names: when the README first read has
\* a line with several datetime placeholders, or with a datetime and a
\* TempName placeholder, a second run of updateReadme with the same values
\* returns what the first run returned.
C8_ReadmeIdempotentOnPlaceholders ==
  ( /\ Len(runs) >= 2
    /\ \E n \in 1..Len(LinesOf(runs[1].readme)) :
         LET l == LinesOf(runs[1].readme)[n]
         IN  \/ Times(l, DatetimeToken) >= 2
             \/ Contains(l, DatetimeToken) /\ Contains(l, TempNameToken) )
  => readmeFile = runs[Len(runs)].readme

----------------------------------------------------------------------------
(* Claim about processRuleDir, under Spec.                                 *)

\* C10: after a run of processRuleDir over a list, parsing the written
\* list gives the counts and total that parsing the list read gave; every
\* # DOMAIN:, # DOMAIN-SUFFIX: and # TOTAL: line of the written list is the
\* canonical line with those counts; and each of the four tags is there.
C10_HeaderInSyncWithBody ==
  (Len(runs) >= 1 /\ listFile # NoFile) =>
    LET before == parseCountsFromList(runs[Len(runs)].list)
        after  == parseCountsFromList(listFile)
        w      == LinesOf(listFile)
        counts == [NoArgs EXCEPT !.updatedAt = args.updatedAt,
                                 !.domainCount = countOf(after.typeCounts, <<"D", "O", "M", "A", "I", "N">>),
                                 !.domainSuffixCount = countOf(after.typeCounts, <<"D", "O", "M", "A", "I", "N", "-", "S", "U", "F", "F", "I", "X">>),
                                 !.total = after.total]
    IN  /\ after = before
        /\ \A n \in 1..Len(w) : \A tag \in {"DOMAIN", "DOMAIN-SUFFIX", "TOTAL"} :
             Begins(w[n], TagPrefix(tag)) => w[n] = CanonicalLine(tag, counts)
        /\ \A tag \in HeaderTags : ~Missing(w, tag)

\* a list with a stale TOTAL line, an entry without a category and a
\* DOMAIN entry: the tags missing are inserted, TOTAL is rewritten to 1
C10_Witness ==
  /\ Len(runs) = 1
  /\ LinesOf(runs[1].list) = << <<"#", " ", "T", "O", "T", "A", "L", ":", " ", "7">>, <<",", "x">>, <<"D", "O", "M", "A", "I", "N", ",", "a">> >>
  /\ LFLinesOf(listFile) =
       << <<"#", " ", "T", "O", "T", "A", "L", ":", " ", "1">>, <<"#", " ", "U", "P", "D", "A", "T", "E", "D", ":", " ", "2", "0", "2", "5", "-", "0", "1", "-", "0", "5", " ", "0", "9", ":", "3", "0", ":", "0", "7">>, <<"#", " ", "D", "O", "M", "A", "I", "N", ":", " ", "1">>,
          <<"#", " ", "D", "O", "M", "A", "I", "N", "-", "S", "U", "F", "F", "I", "X", ":", " ", "0">>, <<",", "x">>, <<"D", "O", "M", "A", "I", "N", ",", "a">> >>

=============================================================================
